---- MODULE Spec2Model ----
(***************************************************************************)
(* Model of the on-device PPG processing library (src/processing.cpp):     *)
(* valley detection, valley pairing, threshold peak detection, RR-interval *)
(* calculation, HRV metrics and RR-interval consistency.                   *)
(*                                                                         *)
(* Conventions                                                             *)
(*  - C arrays are sequences; C index i is position i + 1 (see At).        *)
(*    Index values stored in valley / peak lists are the C indices.        *)
(*  - Samples are integer-valued floats.  A float quotient is kept as an   *)
(*    exact fraction and compared by cross-multiplication; the factors     *)
(*    min_distance and threshold_factor are fractions <<num, den>> with    *)
(*    den > 0, drawn from values that are exact in binary floating point.  *)
(*  - A float result is a record [k, n, d]: k = "rat" is n / d,            *)
(*    k = "sqrt" is sqrt(n / d), k = "nan" and k = "inf" are the IEEE      *)
(*    values a division by zero produces.                                  *)
(*  - A NULL array is the empty sequence.                                  *)
(***************************************************************************)
EXTENDS Integers, Sequences, FiniteSets, TLC

VARIABLES
    origin,            \* what the caller supplied: "signal", "peaks" or "intervals"
    pc,                \* the stage of the pipeline that has completed
    dataset,           \* float* dataset, int size = Len(dataset)
    fs,                \* int fs
    min_distance,      \* float min_distance, <<num, den>>
    threshold_factor,  \* float threshold_factor, <<num, den>>
    valleyList,        \* valleyDetection: candidates before the refractory pass
    valleys,           \* valleyDetection: returned array
    valley_count,      \* valleyDetection: *valley_count
    pairAllocCount,    \* pairValley: the int (valley_count - 1) scaled into malloc's size_t
    pairedValleys,     \* pairValley: returned array of <<start, end>>
    peaks,             \* thresholdPeakDetection: returned array
    peak_count,        \* thresholdPeakDetection: *peak_count
    peakCapacity,      \* thresholdPeakDetection: max_peaks, elements allocated for peakList
    peakStores,        \* thresholdPeakDetection: number of stores peakList[peak_idx++] = i
    rr_intervals,      \* calcRrIntervals: returned array
    rrCount,           \* calcRrIntervals: *rrCount
    metrics,           \* calculateHRVMetrics: returned array (<<>> is NULL)
    metricsCount,      \* calculateHRVMetrics: *metricsCount
    consistency,       \* estimateRRIntervalConsistency: returned float
    heapLog,           \* malloc / use / free events of the call that completed last
    fault,             \* "none", or the undefined operation a call has executed
    windowSize,        \* movingAverageFilter: int windowSize
    maOutput,          \* movingAverageFilter: the samples written to output, in order
    ths,               \* eliminateNoiseInTime: float* ths, four biases
    stds,              \* statisticDetection: stds[]
    kurtosiss,         \* statisticDetection: kurtosiss[]
    skews,             \* statisticDetection: skews[]
    thresholds,        \* statisticThreshold: <<std_ths, kurt_ths, skews_ths[0], skews_ths[1]>>
    filtered_data,     \* eliminateNoiseInTime: returned array
    newSize,           \* eliminateNoiseInTime: *newSize
    ppgManager,        \* BluetoothManager::ppgManager != nullptr
    recordingInProgress, \* PPGManager::recordingInProgress
    recordingStartTime,  \* PPGManager::recordingStartTime
    sensorAwake,       \* MAX30105 power state: wakeUp() / shutDown()
    PPGindex,          \* PPGManager::PPGindex
    now,               \* millis()
    lastOp,            \* the device operation that ran last, with its arguments
    dataBatch,         \* batchPPGData: static std::vector<uint8_t> dataBatch
    batchSamples,      \* the readings whose bytes dataBatch holds, in collection order
    sent,              \* the bytes the last operation passed to sendRawPpgData, if any
    sentSamples,       \* the readings whose bytes sent holds
    pinLevel,          \* digitalRead(buttonPin): "HIGH" released, "LOW" pressed
    isPressed,         \* ButtonManager::isPressed
    isSecondPress,     \* ButtonManager::isSecondPress
    longPressDetected, \* ButtonManager::longPressDetected
    doublePressDetected, \* ButtonManager::doublePressDetected
    lastDebounceTime,  \* ButtonManager::lastDebounceTime
    pressStartTime,    \* ButtonManager::pressStartTime
    lastPressTime,     \* ButtonManager::lastPressTime
    lockOut,           \* ButtonManager::lockOut
    lastButtonState,   \* ButtonManager::lastButtonState
    shortReleaseAt,    \* history: the last observed short release not yet paired, or -1
    lastEventAt        \* history: when handleButton last detected an event, or -1

maVars == <<windowSize, maOutput>>
noiseVars == <<ths, stds, kurtosiss, skews, thresholds, filtered_data, newSize>>
batchVars == <<dataBatch, batchSamples, sent, sentSamples>>
deviceVars == <<ppgManager, recordingInProgress, recordingStartTime, sensorAwake,
                PPGindex, now, lastOp, batchVars>>

ppgVars == <<ppgManager, recordingInProgress, recordingStartTime, sensorAwake,
             PPGindex, batchVars>>
buttonFields == <<isPressed, isSecondPress, longPressDetected, doublePressDetected,
                  lastDebounceTime, pressStartTime, lastPressTime, lockOut,
                  lastButtonState>>
buttonVars == <<pinLevel, buttonFields, shortReleaseAt, lastEventAt>>

vars == <<origin, pc, dataset, fs, min_distance, threshold_factor, valleyList,
          valleys, valley_count, pairAllocCount, pairedValleys, peaks, peak_count,
          peakCapacity, peakStores, rr_intervals, rrCount, metrics, metricsCount,
          consistency, heapLog, fault, maVars, noiseVars, deviceVars, buttonVars>>

(***************************************************************************)
(* Bounds of the model                                                     *)
(***************************************************************************)
MaxLen == 5            \* longest sample sequence
MaxFs == 2             \* sampling rates 1..MaxFs (and 200, the rate of PPGManager.h)
MaxHalfSeconds == 2    \* min_distance is k/2 seconds, k in 0..MaxHalfSeconds
MaxPeaks == 3          \* longest caller-supplied peak list
MaxRR == 3             \* longest caller-supplied interval list
MaxWindow == 3         \* largest windowSize of the moving average
MaxBlocks == 3         \* most segments of a signal given to the noise elimination
MaxPolls == 10         \* the button is polled at 0, 100, ..., 100 * MaxPolls ms
MaxClock == 3          \* millis() is observed at 0..MaxClock and MaxClock + 1 later instants
COLLECTION_TIME == 60000
lockOutDelay == 600

SeqsUpTo(S, n) == UNION {[1..k -> S] : k \in 0..n}

\* three sample levels: below, at and above one another
Samples == {0, 1, 2}

\* short signals, and short signals followed by ten samples of 0 (size >= 10,
\* so that size / 10 >= 1)
Signals ==
    SeqsUpTo(Samples, MaxLen)
        \cup {s \o [i \in 1..10 |-> 0] : s \in SeqsUpTo(Samples, MaxLen - 2)}
FsSet == (1..MaxFs) \cup {200}
MinDistances == {<<k, 2>> : k \in 0..MaxHalfSeconds}
ThresholdFactors == {<<1, 2>>, <<1, 1>>}
PeakLists == SeqsUpTo({0, 1, 3, 100}, MaxPeaks)
RRLists == SeqsUpTo({300, 900, 1500}, MaxRR)
\* window sizes, the non-positive ones a caller can pass included
WindowSizes == (-1)..MaxWindow
\* sampling rates that are not positive
NonPositiveRates == {-1, 0}

\* segments whose variance has an exact square root: two segments of two
\* samples (std 1/2 and 5), one of a single sample (variance 0), and one
\* with an outlier (std 2, kurtosis 1/4, skewness 3/2)
NoiseBlocks == {<<0, 1>>, <<0, 10>>, <<1>>, <<0, 0, 0, 0, 5>>}
BlockLists == SeqsUpTo(NoiseBlocks, MaxBlocks)

RECURSIVE Flatten(_)
Flatten(blocks) == IF blocks = <<>> THEN <<>> ELSE blocks[1] \o Flatten(Tail(blocks))

\* the <<start, end>> index range of every block within Flatten(blocks)
RECURSIVE BlockRanges(_, _)
BlockRanges(blocks, from) ==
    IF blocks = <<>> THEN <<>>
    ELSE <<<<from, from + Len(blocks[1]) - 1>>>>
             \o BlockRanges(Tail(blocks), from + Len(blocks[1]))

\* the ranges numbered in keep, in signal order
RangesKept(blocks, keep) ==
    LET ranges == BlockRanges(blocks, 0)
    IN  SelectSeq(ranges, LAMBDA r : \E i \in keep : ranges[i] = r)

\* the bytes of a characteristic write: both commands, an unknown command
\* and the largest byte
Bytes == {0, 1, 2, 255}
\* data[0 .. len - 1] of a write, len = 0, 1 or 2
Writes == SeqsUpTo(Bytes, 2)
ClockValues == 0..MaxClock
\* the instants at which the device runs: just after power-up, and around
\* COLLECTION_TIME after those
ClockInstants == ClockValues \cup {COLLECTION_TIME - 1 + k : k \in ClockValues}
\* the instants at which the button is polled or changes
ButtonInstants == {100 * k : k \in 0..MaxPolls}
\* green-channel readings: 0x000000FE (low byte equal to the delimiter) and
\* 0x00018001 (more than 16 bits, bit 15 of the low half set)
Readings == {254, 98305}

\* the four biases ths[0..3]: all zero, all positive, each one zero in turn,
\* and a large bias on the standard deviation
ThsSet == {<<0, 0, 0, 0>>, <<2, 2, 2, 2>>, <<0, 2, 2, 2>>, <<2, 0, 2, 2>>,
           <<2, 2, 0, 2>>, <<2, 2, 2, 0>>, <<10, 2, 2, 2>>}
\* values a heap cell outside the allocated block may be found to hold
Indeterminate == {-1, 0}

(***************************************************************************)
(* Arithmetic helpers                                                      *)
(***************************************************************************)
At(a, i) == a[i + 1]

RECURSIVE Sum(_)
Sum(s) == IF s = <<>> THEN 0 ELSE s[1] + Sum(Tail(s))

\* C integer division, truncating toward zero (b # 0)
CDiv(a, b) ==
    IF (a >= 0) = (b > 0)
    THEN (IF a >= 0 THEN a ELSE -a) \div (IF b > 0 THEN b ELSE -b)
    ELSE -((IF a >= 0 THEN a ELSE -a) \div (IF b > 0 THEN b ELSE -b))

\* (int)ceil(n / d) for d > 0
CeilFrac(n, d) == -((-n) \div d)

FRat(n, d) == [k |-> "rat", n |-> n, d |-> d]
FSqrt(n, d) == [k |-> "sqrt", n |-> n, d |-> d]
FNaN == [k |-> "nan", n |-> 0, d |-> 0]
FInf == [k |-> "inf", n |-> 0, d |-> 0]

\* float division n / d of two exact values
FDiv(n, d) == IF d # 0 THEN FRat(n, d) ELSE IF n = 0 THEN FNaN ELSE FInf

\* sqrt(n / d) for n >= 0; sqrt of NaN is NaN
FSqrtDiv(n, d) == IF d # 0 THEN FSqrt(n, d) ELSE IF n = 0 THEN FNaN ELSE FInf

(***************************************************************************)
(* valleyDetection                                                         *)
(***************************************************************************)
\* TH_elapsed = (int)ceil(min_distance * fs)
TH_elapsed(md, f) == CeilFrac(md[1] * f, md[2])

\* dataset[i] > localaverage, localaverage = sum / size
AboveAverage(d, i) == At(d, i) * Len(d) > Sum(d)

\* variant: the comparison is <=, so the last minimum of the window wins
RECURSIVE MinIndexLast(_, _, _, _)
MinIndexLast(d, window, j, min_index) ==
    IF j > Len(window) THEN min_index
    ELSE IF At(d, window[j]) <= At(d, window[min_index])
         THEN MinIndexLast(d, window, j + 1, j)
         ELSE MinIndexLast(d, window, j + 1, min_index)

\* the inner loop over the window: position of the first minimum
RECURSIVE MinIndexFrom(_, _, _, _)
MinIndexFrom(d, window, j, min_index) ==
    IF j > Len(window) THEN min_index
    ELSE IF At(d, window[j]) < At(d, window[min_index])
         THEN MinIndexFrom(d, window, j + 1, j)
         ELSE MinIndexFrom(d, window, j + 1, min_index)

WindowMinimum(d, window) == window[MinIndexFrom(d, window, 2, 1)]

\* the scan loop, i = 0 .. size-1, carrying window and valleyList
RECURSIVE ValleyScan(_, _, _, _)
ValleyScan(d, i, window, vl) ==
    IF i >= Len(d) THEN vl
    ELSE IF AboveAverage(d, i) /\ Len(window) < 1
         THEN ValleyScan(d, i + 1, window, vl)
    ELSE IF ~AboveAverage(d, i)
         THEN ValleyScan(d, i + 1, Append(window, i), vl)
    ELSE IF Len(window) > 0
         THEN ValleyScan(d, i + 1, <<>>, Append(vl, WindowMinimum(d, window)))
         ELSE ValleyScan(d, i + 1, window, vl)

ValleyCandidates(d) == ValleyScan(d, 0, <<>>, <<>>)

\* the second pass: keep an index iff it is the first or more than th after
\* the last kept one
RECURSIVE RefractoryFrom(_, _, _, _)
RefractoryFrom(list, th, i, kept) ==
    IF i > Len(list) THEN kept
    ELSE IF Len(kept) = 0 \/ (list[i] - kept[Len(kept)]) > th
         THEN RefractoryFrom(list, th, i + 1, Append(kept, list[i]))
         ELSE RefractoryFrom(list, th, i + 1, kept)

RefractoryFilter(list, th) == RefractoryFrom(list, th, 1, <<>>)

(***************************************************************************)
(* pairValley                                                              *)
(***************************************************************************)
\* variant: both ends of a pair are taken from valleys[i]
PairValleySameEnd(v, count) == [i \in 1..(count - 1) |-> <<v[i], v[i]>>]

\* the loop i = 0 .. valley_count - 2
PairValley(v, count) == [i \in 1..(count - 1) |-> <<v[i], v[i + 1]>>]

\* malloc((valley_count - 1) * sizeof(int*)): the int count is converted to the
\* unsigned size_t, so a negative count becomes a request above PTRDIFF_MAX
AllocRequestValid(count) == count >= 0

(***************************************************************************)
(* thresholdPeakDetection                                                  *)
(***************************************************************************)
\* int max_peaks = size / 10
MaxPeaksFor(size) == CDiv(size, 10)

\* dataset[i] >= local_average, local_average = (sum / size) * threshold_factor
AtLeastThreshold(d, i, tf) == At(d, i) * Len(d) * tf[2] >= Sum(d) * tf[1]

\* variant: a sample equal to a neighbour still counts as a local maximum
PeakConditionNonStrict(d, i, tf) ==
    /\ AtLeastThreshold(d, i, tf)
    /\ At(d, i) >= At(d, i - 1)
    /\ At(d, i) >= At(d, i + 1)

PeakCondition(d, i, tf) ==
    /\ AtLeastThreshold(d, i, tf)
    /\ At(d, i) > At(d, i - 1)
    /\ At(d, i) > At(d, i + 1)

\* the scan loop, i = 1 .. size-2, carrying peakList
RECURSIVE PeakScan(_, _, _, _, _)
PeakScan(d, tf, th, i, pl) ==
    IF i >= Len(d) - 1 THEN pl
    ELSE IF PeakCondition(d, i, tf)
            /\ (Len(pl) = 0 \/ (i - pl[Len(pl)]) > th)
         THEN PeakScan(d, tf, th, i + 1, Append(pl, i))
         ELSE PeakScan(d, tf, th, i + 1, pl)

PeakStoreList(d, f, tf, md) == PeakScan(d, tf, TH_elapsed(md, f), 1, <<>>)

\* What realloc(peakList, peak_idx * sizeof(int)) hands back.  Stores up to
\* max_peaks are inside the block malloc returned.  Stores past it went to
\* memory the allocator does not count as part of the block: a realloc that
\* moves the block copies only what the block holds, so each returned array
\* keeps a prefix of at least max_peaks stored values and the rest is whatever
\* the new block held.
PeakReturns(stored, cap) ==
    IF Len(stored) <= cap THEN {stored}
    ELSE {[i \in 1..Len(stored) |-> IF i <= keep THEN stored[i] ELSE junk] :
              keep \in cap..Len(stored), junk \in Indeterminate}

(***************************************************************************)
(* calcRrIntervals                                                         *)
(***************************************************************************)
\* variant: the upper limit 1500 is exclusive
RECURSIVE RrScanExclusive(_, _, _, _, _)
RrScanExclusive(p, count, f, i, rr) ==
    IF i >= count THEN rr
    ELSE LET rr_interval == CDiv((At(p, i) - At(p, i - 1)) * 1000, f)
         IN  IF rr_interval >= 300 /\ rr_interval < 1500
             THEN RrScanExclusive(p, count, f, i + 1, Append(rr, rr_interval))
             ELSE RrScanExclusive(p, count, f, i + 1, rr)

RECURSIVE RrScan(_, _, _, _, _)
RrScan(p, count, f, i, rr) ==
    IF i >= count THEN rr
    ELSE LET rr_interval == CDiv((At(p, i) - At(p, i - 1)) * 1000, f)
         IN  IF rr_interval >= 300 /\ rr_interval <= 1500
             THEN RrScan(p, count, f, i + 1, Append(rr, rr_interval))
             ELSE RrScan(p, count, f, i + 1, rr)

CalcRr(p, count, f) == IF count < 2 THEN <<>> ELSE RrScan(p, count, f, 1, <<>>)

(***************************************************************************)
(* calculateHRVMetrics                                                     *)
(***************************************************************************)
\* sum over i of (rr[i] - sum / count)^2, as a numerator over count^2
RECURSIVE SquaredDeviations(_, _, _)
SquaredDeviations(rr, count, sumRR) ==
    IF rr = <<>> THEN 0
    ELSE (rr[1] * count - sumRR) * (rr[1] * count - sumRR)
             + SquaredDeviations(Tail(rr), count, sumRR)

\* sum over i = 1 .. count-1 of (rr[i] - rr[i-1])^2
RECURSIVE SuccessiveSquares(_, _)
SuccessiveSquares(rr, i) ==
    IF i >= Len(rr) THEN 0
    ELSE (At(rr, i) - At(rr, i - 1)) * (At(rr, i) - At(rr, i - 1))
             + SuccessiveSquares(rr, i + 1)

\* variant: 60000 is divided by the sum of the intervals, not by their mean
HeartRateFromSum(rr, count) == FDiv(60000, Sum(rr))

\* heartRate = 60000.0 / avgRR, avgRR = sumRR / rrCount
HeartRate(rr, count) == FDiv(60000 * count, Sum(rr))

\* sdnn = sqrt(varianceRR / rrCount)
Sdnn(rr, count) ==
    FSqrtDiv(SquaredDeviations(rr, count, Sum(rr)), count * count * count)

\* rmssd = sqrt(sumOfSquares / (rrCount - 1))
Rmssd(rr, count) == FSqrtDiv(SuccessiveSquares(rr, 1), count - 1)

\* variant: the count is set without the rrCount == 0 return
HrvMetricsCountNoGuard(count) == 3

HrvMetricsCount(count) == IF count = 0 THEN 0 ELSE 3

\* variant: the metrics are computed without the rrCount == 0 return
HrvMetricsNoGuard(rr, count) ==
    <<HeartRate(rr, count), Sdnn(rr, count), Rmssd(rr, count)>>

HrvMetrics(rr, count) ==
    IF count = 0 THEN <<>>
    ELSE <<HeartRate(rr, count), Sdnn(rr, count), Rmssd(rr, count)>>

(***************************************************************************)
(* estimateRRIntervalConsistency                                           *)
(***************************************************************************)
\* variant: the sentinel is returned only for an empty list
RrConsistencyFromOne(rr, count) ==
    IF count < 1 THEN FRat(-1, 1)
    ELSE FSqrtDiv(SquaredDeviations(rr, count, Sum(rr)), count * count * count)

RrConsistency(rr, count) ==
    IF count < 2 THEN FRat(-1, 1)
    ELSE FSqrtDiv(SquaredDeviations(rr, count, Sum(rr)), count * count * count)

(***************************************************************************)
(* movingAverageFilter                                                     *)
(***************************************************************************)
\* variant: the left edge stops one sample early (i - j > 0)
RECURSIVE MaWindowSkipFirst(_, _, _, _, _, _)
MaWindowSkipFirst(input, i, j, w, sum, count) ==
    IF j >= w THEN <<sum, count>>
    ELSE IF i - j > 0
         THEN MaWindowSkipFirst(input, i, j + 1, w, sum + At(input, i - j), count + 1)
         ELSE MaWindowSkipFirst(input, i, j + 1, w, sum, count)

\* the inner loop over j < windowSize: <<sum, count>> after it
RECURSIVE MaWindow(_, _, _, _, _, _)
MaWindow(input, i, j, w, sum, count) ==
    IF j >= w THEN <<sum, count>>
    ELSE IF i - j >= 0
         THEN MaWindow(input, i, j + 1, w, sum + At(input, i - j), count + 1)
         ELSE MaWindow(input, i, j + 1, w, sum, count)

\* output[i] = sum / count
MaSample(input, i, w) ==
    LET sc == MaWindow(input, i, 0, w, 0, 0) IN FDiv(sc[1], sc[2])

\* the writes output[0], ..., output[size - 1] of the outer loop
MovingAverage(input, size, w) == [i \in 1..size |-> MaSample(input, i - 1, w)]

(***************************************************************************)
(* Exact float arithmetic of the segment statistics.  The values are       *)
(* fractions n / d in lowest terms with d > 0; NaN propagates through      *)
(* every operation and makes every comparison false.                       *)
(***************************************************************************)
Abs(x) == IF x >= 0 THEN x ELSE -x

RECURSIVE Gcd(_, _)
Gcd(a, b) == IF b = 0 THEN a ELSE Gcd(b, a % b)

\* n / d in lowest terms, d # 0
RNorm(n, d) ==
    LET g == Gcd(Abs(n), Abs(d))
    IN  IF d > 0 THEN FRat(n \div g, d \div g) ELSE FRat((-n) \div g, (-d) \div g)

FInt(x) == FRat(x, 1)
IsRat(x) == x.k = "rat"
IsNaN(x) == x.k = "nan"
NonNumber(a, b) == IF IsNaN(a) \/ IsNaN(b) THEN FNaN ELSE FInf

FAdd(a, b) ==
    IF IsRat(a) /\ IsRat(b) THEN RNorm(a.n * b.d + b.n * a.d, a.d * b.d)
    ELSE NonNumber(a, b)

FSub(a, b) ==
    IF IsRat(a) /\ IsRat(b) THEN RNorm(a.n * b.d - b.n * a.d, a.d * b.d)
    ELSE NonNumber(a, b)

FMul(a, b) ==
    IF IsRat(a) /\ IsRat(b) THEN RNorm(a.n * b.n, a.d * b.d)
    ELSE NonNumber(a, b)

\* a / b: 0 / 0 is NaN, x / 0 is infinite for x # 0
FQuot(a, b) ==
    IF IsRat(a) /\ IsRat(b)
    THEN IF b.n # 0 THEN RNorm(a.n * b.d, a.d * b.n)
         ELSE IF a.n = 0 THEN FNaN ELSE FInf
    ELSE NonNumber(a, b)

\* a < b as the float comparison evaluates it
FLess(a, b) == IsRat(a) /\ IsRat(b) /\ a.n * b.d < b.n * a.d

\* variant: a <= b
FLessEq(a, b) == IsRat(a) /\ IsRat(b) /\ a.n * b.d <= b.n * a.d

RECURSIVE FPow(_, _)
FPow(x, p) == IF p = 0 THEN FInt(1) ELSE FMul(x, FPow(x, p - 1))

IsSquare(n) == \E r \in 0..n : r * r = n
ISqrt(n) == CHOOSE r \in 0..n : r * r = n

\* sqrt(x) of a fraction whose root is a fraction
FRoot(x) == IF IsRat(x) THEN FRat(ISqrt(x.n), ISqrt(x.d)) ELSE x

(***************************************************************************)
(* statisticDetection                                                      *)
(***************************************************************************)
\* sum over j = from..end of pow(signal[j] - mean, p)
RECURSIVE MomentSum(_, _, _, _, _)
MomentSum(signal, from, end, mean, p) ==
    IF from > end THEN FInt(0)
    ELSE FAdd(FPow(FSub(FInt(At(signal, from)), mean), p),
              MomentSum(signal, from + 1, end, mean, p))

SegmentLength(seg) == seg[2] - seg[1] + 1

SegmentMean(signal, seg) ==
    FQuot(FInt(Sum(SubSeq(signal, seg[1] + 1, seg[2] + 1))), FInt(SegmentLength(seg)))

SegmentVariance(signal, seg) ==
    FQuot(MomentSum(signal, seg[1], seg[2], SegmentMean(signal, seg), 2),
          FInt(SegmentLength(seg)))

\* stds[i] = sqrt(variance)
SegmentStd(signal, seg) == FRoot(SegmentVariance(signal, seg))

\* kurtosiss[i] = (fourth_moment / length) / (variance * variance) - 3
SegmentKurtosis(signal, seg) ==
    LET variance == SegmentVariance(signal, seg)
        fourth_moment == MomentSum(signal, seg[1], seg[2], SegmentMean(signal, seg), 4)
    IN  FSub(FQuot(FQuot(fourth_moment, FInt(SegmentLength(seg))),
                   FMul(variance, variance)),
             FInt(3))

\* skews[i] = (third_moment / length) / pow(sqrt(variance), 3)
SegmentSkew(signal, seg) ==
    LET third_moment == MomentSum(signal, seg[1], seg[2], SegmentMean(signal, seg), 3)
    IN  FQuot(FQuot(third_moment, FInt(SegmentLength(seg))),
              FPow(SegmentStd(signal, seg), 3))

StatisticStds(signal, segs, count) == [i \in 1..count |-> SegmentStd(signal, segs[i])]
StatisticKurtosiss(signal, segs, count) ==
    [i \in 1..count |-> SegmentKurtosis(signal, segs[i])]
StatisticSkews(signal, segs, count) == [i \in 1..count |-> SegmentSkew(signal, segs[i])]

(***************************************************************************)
(* statisticThreshold                                                      *)
(***************************************************************************)
RECURSIVE FSum(_)
FSum(list) == IF list = <<>> THEN FInt(0) ELSE FAdd(list[1], FSum(Tail(list)))

\* sum / valley_count
StatisticMean(list, count) == FQuot(FSum(list), FInt(count))

\* <<*std_ths, *kurt_ths, skews_ths[0], skews_ths[1]>>
StatisticThreshold(sd, ku, sk, count, bias) ==
    << FAdd(StatisticMean(sd, count), FInt(bias[1])),
       FAdd(StatisticMean(ku, count), FInt(bias[2])),
       FSub(StatisticMean(sk, count), FInt(bias[3])),
       FAdd(StatisticMean(sk, count), FInt(bias[4])) >>

(***************************************************************************)
(* eliminateNoiseInTime, the 8-argument form                               *)
(***************************************************************************)
\* variant: the first comparison is <=
WithinThresholdsNonStrict(sd, ku, sk, t, i) ==
    /\ FLessEq(sd[i], t[1])
    /\ FLess(ku[i], t[2])
    /\ FLess(t[3], sk[i])
    /\ FLess(sk[i], t[4])

\* stds[i] < std_ths && kurtosiss[i] < kurt_ths &&
\* skews[i] > skews_ths[0] && skews[i] < skews_ths[1]
WithinThresholds(sd, ku, sk, t, i) ==
    /\ FLess(sd[i], t[1])
    /\ FLess(ku[i], t[2])
    /\ FLess(t[3], sk[i])
    /\ FLess(sk[i], t[4])

\* valid_indices[0 .. valid_count - 1], 0-based segment numbers
ValidIndices(sd, ku, sk, t, count) ==
    SelectSeq([i \in 1..count |-> i - 1],
              LAMBDA i : WithinThresholds(sd, ku, sk, t, i + 1))

\* final_size: the sum of end - start + 1 over the valid segments
RECURSIVE FinalSize(_, _)
FinalSize(segs, valid) ==
    IF valid = <<>> THEN 0
    ELSE SegmentLength(At(segs, valid[1])) + FinalSize(segs, Tail(valid))

\* variant: every segment is copied, valid or not
RECURSIVE CopyAllSegments(_, _, _)
CopyAllSegments(data, segs, valid) ==
    IF segs = <<>> THEN <<>>
    ELSE SubSeq(data, segs[1][1] + 1, segs[1][2] + 1)
             \o CopyAllSegments(data, Tail(segs), valid)

\* the copy loop: data[start .. end] of every valid segment, in order
RECURSIVE CopySegments(_, _, _)
CopySegments(data, segs, valid) ==
    IF valid = <<>> THEN <<>>
    ELSE SubSeq(data, At(segs, valid[1])[1] + 1, At(segs, valid[1])[2] + 1)
             \o CopySegments(data, segs, Tail(valid))

(***************************************************************************)
(* The heap operations of one call, in program order: <<op, buffer>> with  *)
(* op in malloc, use, realloc, free, return.                               *)
(***************************************************************************)
HeapUse(cond, buffer) == IF cond THEN <<<<"use", buffer>>>> ELSE <<>>

NoCall == [call |-> "none", events |-> <<>>]

\* variant: window is not freed
ValleyDetectionHeapLeak(d, candidates) ==
    << <<"malloc", "valleyList">>, <<"malloc", "window">> >>
        \o HeapUse(\E i \in 0..(Len(d) - 1) : ~AboveAverage(d, i), "window")
        \o HeapUse(candidates # <<>>, "valleyList")
        \o << <<"malloc", "valleyArray">> >>
        \o HeapUse(candidates # <<>>, "valleyList")
        \o HeapUse(candidates # <<>>, "valleyArray")
        \o << <<"free", "valleyList">>, <<"return", "valleyArray">> >>

ValleyDetectionHeap(d, candidates) ==
    << <<"malloc", "valleyList">>, <<"malloc", "window">> >>
        \o HeapUse(\E i \in 0..(Len(d) - 1) : ~AboveAverage(d, i), "window")
        \o HeapUse(candidates # <<>>, "valleyList")
        \o << <<"malloc", "valleyArray">> >>
        \o HeapUse(candidates # <<>>, "valleyList")
        \o HeapUse(candidates # <<>>, "valleyArray")
        \o << <<"free", "window">>, <<"free", "valleyList">>,
              <<"return", "valleyArray">> >>

EliminateNoiseHeap(count, valid) ==
    << <<"malloc", "stds">>, <<"malloc", "kurtosiss">>, <<"malloc", "skews">> >>
        \o HeapUse(count > 0, "stds")
        \o HeapUse(count > 0, "kurtosiss")
        \o HeapUse(count > 0, "skews")
        \o << <<"malloc", "valid_indices">> >>
        \o HeapUse(count > 0, "stds")
        \o HeapUse(count > 0, "kurtosiss")
        \o HeapUse(count > 0, "skews")
        \o HeapUse(valid # <<>>, "valid_indices")
        \o << <<"malloc", "filtered_data">> >>
        \o HeapUse(valid # <<>>, "valid_indices")
        \o HeapUse(valid # <<>>, "filtered_data")
        \o << <<"free", "stds">>, <<"free", "kurtosiss">>, <<"free", "skews">>,
              <<"free", "valid_indices">>, <<"return", "filtered_data">> >>

CalcRrHeap(count) ==
    IF count < 2 THEN << <<"return", "NULL">> >>
    ELSE << <<"malloc", "rr_intervals">>, <<"use", "rr_intervals">>,
            <<"realloc", "rr_intervals">>, <<"return", "rr_intervals">> >>

HrvMetricsHeap(count) ==
    IF count = 0 THEN << <<"return", "NULL">> >>
    ELSE << <<"malloc", "metrics">>, <<"use", "metrics">>, <<"return", "metrics">> >>

(***************************************************************************)
(* BluetoothManager::recordingStartCallback                                *)
(***************************************************************************)
\* variant: the length test is len >= 1
RecordingCommandAnyLength(data, len, linked) ==
    IF len >= 1 /\ linked
    THEN IF At(data, 0) = 1 THEN "start"
         ELSE IF At(data, 0) = 0 THEN "stop"
         ELSE "unknown"
    ELSE "invalid"

\* the branch the callback takes: data[0] is read only when len == 1
RecordingCommand(data, len, linked) ==
    IF len = 1 /\ linked
    THEN IF At(data, 0) = 1 THEN "start"
         ELSE IF At(data, 0) = 0 THEN "stop"
         ELSE "unknown"
    ELSE "invalid"

(***************************************************************************)
(* PPGManager::realTimePPGRec and PPGManager::batchPPGData                 *)
(***************************************************************************)
\* variant: the window is closed at its end, <= COLLECTION_TIME
WithinCollectionTimeInclusive(t, start) == t - start <= COLLECTION_TIME

\* millis() - recordingStartTime < COLLECTION_TIME
WithinCollectionTime(t, start) == t - start < COLLECTION_TIME

\* static_cast<int16_t>(ppgSignal): the low 16 bits as a signed value
ToInt16(ppgSignal) ==
    IF (ppgSignal % 65536) >= 32768 THEN (ppgSignal % 65536) - 65536
    ELSE ppgSignal % 65536

\* variant: the low byte is pushed first
EncodeSampleLowFirst(ppgSignal) ==
    << ToInt16(ppgSignal) % 256, (ToInt16(ppgSignal) \div 256) % 256, 254 >>

\* the three push_back calls: (scaledSignal >> 8) & 0xFF, scaledSignal & 0xFF, 0xFE
EncodeSample(ppgSignal) ==
    << (ToInt16(ppgSignal) \div 256) % 256, ToInt16(ppgSignal) % 256, 254 >>

\* dataBatch.size() >= packetSize
PacketReady(batch) == Len(batch) >= 18

(***************************************************************************)
(* ButtonManager::handleButton                                             *)
(***************************************************************************)
\* variant: pressDuration >= 800
IsLongDurationInclusive(pressDuration) == pressDuration >= 800

\* pressDuration > 800
IsLongDuration(pressDuration) == pressDuration > 800

\* millis() - lastPressTime <= 500
WithinDoublePress(t, last) == t - last <= 500

\* the lockout test at the head of handleButton: TRUE when the call returns
\* at once
LockedOut(locked, t, debounce) == locked /\ ~(t - debounce > lockOutDelay)

\* variant: the flag is returned and left set
QueryLeavesFlag(flag) == [result |-> flag, flag |-> flag]

\* isLongPress / isDoublePress: the value returned and the flag afterwards
QueryFlag(flag) == [result |-> flag, flag |-> FALSE]

(***************************************************************************)
(* Specification                                                           *)
(* The caller holds a signal, a peak list or an interval list and runs the *)
(* stages from there in pipeline order.                                    *)
(***************************************************************************)
\* the device is not part of a processing run
DeviceIdle ==
    /\ ppgManager = FALSE
    /\ recordingInProgress = FALSE
    /\ recordingStartTime = 0
    /\ sensorAwake = TRUE
    /\ PPGindex = 0
    /\ now = 0
    /\ lastOp = <<"none">>
    /\ dataBatch = <<>>
    /\ batchSamples = <<>>
    /\ sent = <<>>
    /\ sentSamples = <<>>

\* ButtonManager::ButtonManager, the button released
ButtonIdle ==
    /\ pinLevel = "HIGH"
    /\ isPressed = FALSE
    /\ isSecondPress = FALSE
    /\ longPressDetected = FALSE
    /\ doublePressDetected = FALSE
    /\ lastDebounceTime = 0
    /\ pressStartTime = 0
    /\ lastPressTime = 0
    /\ lockOut = FALSE
    /\ lastButtonState = "HIGH"
    /\ shortReleaseAt = -1
    /\ lastEventAt = -1

NoNoiseResults ==
    /\ stds = <<>>
    /\ kurtosiss = <<>>
    /\ skews = <<>>
    /\ thresholds = <<>>
    /\ filtered_data = <<>>
    /\ newSize = 0

NoStageResults ==
    /\ ButtonIdle
    /\ heapLog = NoCall
    /\ fault = "none"
    /\ maOutput = <<>>
    /\ NoNoiseResults
    /\ valleyList = <<>>
    /\ valleys = <<>>
    /\ valley_count = 0
    /\ pairAllocCount = 0
    /\ pairedValleys = <<>>
    /\ peakCapacity = 0
    /\ peakStores = 0
    /\ metrics = <<>>
    /\ metricsCount = 0
    /\ consistency = FNaN

NoResults == NoStageResults /\ DeviceIdle

\* the idle values of the inputs an origin does not use
NoNoiseInputs ==
    /\ windowSize = 1
    /\ ths = <<0, 0, 0, 0>>

InitRaw ==
    /\ origin = "raw"
    /\ pc = "raw"
    /\ dataset \in SeqsUpTo(Samples, MaxLen)
    /\ windowSize \in WindowSizes
    /\ ths = <<0, 0, 0, 0>>
    /\ fs = 1
    /\ min_distance = <<0, 2>>
    /\ threshold_factor = <<1, 1>>
    /\ peaks = <<>>
    /\ peak_count = 0
    /\ rr_intervals = <<>>
    /\ rrCount = 0
    /\ NoResults

InitSignalAt(rates) ==
    /\ origin = "signal"
    /\ pc = "start"
    /\ dataset \in Signals
    /\ fs \in rates
    /\ NoNoiseInputs
    /\ min_distance \in MinDistances
    /\ threshold_factor \in ThresholdFactors
    /\ peaks = <<>>
    /\ peak_count = 0
    /\ rr_intervals = <<>>
    /\ rrCount = 0
    /\ NoResults

InitSignal == InitSignalAt(FsSet)

InitPeaksAt(rates) ==
    /\ origin = "peaks"
    /\ pc = "peaks"
    /\ dataset = <<>>
    /\ fs \in rates
    /\ NoNoiseInputs
    /\ min_distance = <<0, 2>>
    /\ threshold_factor = <<1, 1>>
    /\ peaks \in PeakLists
    /\ peak_count = Len(peaks)
    /\ rr_intervals = <<>>
    /\ rrCount = 0
    /\ NoResults

InitPeaks == InitPeaksAt(FsSet)

\* a signal cut into segments, of which the caller passes some
InitSegmentsAt(rates) ==
    /\ origin = "segments"
    /\ pc = "segments"
    /\ \E blocks \in BlockLists : \E keep \in SUBSET (1..Len(blocks)) :
          /\ dataset = Flatten(blocks)
          /\ pairedValleys = RangesKept(blocks, keep)
    /\ fs \in rates
    /\ ths \in ThsSet
    /\ windowSize = 1
    /\ min_distance = <<0, 2>>
    /\ threshold_factor = <<1, 1>>
    /\ peaks = <<>>
    /\ peak_count = 0
    /\ rr_intervals = <<>>
    /\ rrCount = 0
    /\ heapLog = NoCall
    /\ fault = "none"
    /\ maOutput = <<>>
    /\ NoNoiseResults
    /\ DeviceIdle
    /\ ButtonIdle
    /\ valleyList = <<>>
    /\ valleys = <<>>
    /\ valley_count = 0
    /\ pairAllocCount = 0
    /\ peakCapacity = 0
    /\ peakStores = 0
    /\ metrics = <<>>
    /\ metricsCount = 0
    /\ consistency = FNaN

\* two samples per second: adjacent peaks of a cleaned signal are 1000 ms apart
InitSegments == InitSegmentsAt({2})

InitIntervals ==
    /\ origin = "intervals"
    /\ pc = "rr"
    /\ dataset = <<>>
    /\ fs = 1
    /\ NoNoiseInputs
    /\ min_distance = <<0, 2>>
    /\ threshold_factor = <<1, 1>>
    /\ peaks = <<>>
    /\ peak_count = 0
    /\ rr_intervals \in RRLists
    /\ rrCount = Len(rr_intervals)
    /\ NoResults

Init == InitRaw \/ InitSignal \/ InitSegments \/ InitPeaks \/ InitIntervals

MovingAverageFilter ==
    /\ pc = "raw"
    /\ maOutput' = MovingAverage(dataset, Len(dataset), windowSize)
    /\ pc' = "smoothed"
    /\ UNCHANGED <<origin, dataset, fs, min_distance, threshold_factor, valleyList,
                   valleys, valley_count, pairAllocCount, pairedValleys, peaks,
                   peak_count, peakCapacity, peakStores, rr_intervals, rrCount,
                   metrics, metricsCount, consistency, heapLog, fault, windowSize,
                   noiseVars, deviceVars, buttonVars>>

ValleyDetection ==
    /\ pc = "start"
    /\ valleyList' = ValleyCandidates(dataset)
    /\ valleys' = RefractoryFilter(valleyList', TH_elapsed(min_distance, fs))
    /\ valley_count' = Len(valleys')
    /\ heapLog' = [call |-> "valleyDetection",
                   events |-> ValleyDetectionHeap(dataset, valleyList')]
    /\ pc' = "valleys"
    /\ UNCHANGED <<origin, dataset, fs, min_distance, threshold_factor,
                   pairAllocCount, pairedValleys, peaks, peak_count, peakCapacity,
                   peakStores, rr_intervals, rrCount, metrics, metricsCount,
                   consistency, fault, maVars, noiseVars, deviceVars, buttonVars>>

PairValleyCall ==
    /\ pc = "valleys"
    /\ pairAllocCount' = valley_count - 1
    /\ pairedValleys' = PairValley(valleys, valley_count)
    /\ pc' = "paired"
    /\ UNCHANGED <<origin, dataset, fs, min_distance, threshold_factor, valleyList,
                   valleys, valley_count, peaks, peak_count, peakCapacity,
                   peakStores, rr_intervals, rrCount, metrics, metricsCount,
                   consistency, heapLog, fault, maVars, noiseVars, deviceVars, buttonVars>>

\* the caller passes its segment list and the length of that list
EliminateNoiseInTime ==
    /\ pc = "segments"
    /\ LET count == Len(pairedValleys)
       IN  /\ stds' = StatisticStds(dataset, pairedValleys, count)
           /\ kurtosiss' = StatisticKurtosiss(dataset, pairedValleys, count)
           /\ skews' = StatisticSkews(dataset, pairedValleys, count)
           /\ thresholds' = StatisticThreshold(stds', kurtosiss', skews', count, ths)
           /\ LET valid == ValidIndices(stds', kurtosiss', skews', thresholds', count)
              IN  /\ newSize' = FinalSize(pairedValleys, valid)
                  /\ filtered_data' = CopySegments(dataset, pairedValleys, valid)
                  /\ heapLog' = [call |-> "eliminateNoiseInTime",
                                 events |-> EliminateNoiseHeap(count, valid)]
    /\ pc' = "cleaned"
    /\ UNCHANGED <<origin, dataset, fs, min_distance, threshold_factor, valleyList,
                   valleys, valley_count, pairAllocCount, pairedValleys, peaks,
                   peak_count, peakCapacity, peakStores, rr_intervals, rrCount,
                   metrics, metricsCount, consistency, fault, ths, maVars,
                   deviceVars, buttonVars>>

\* the signal the peak detection runs on: the cleaned one after a noise elimination
PeakInput == IF pc = "cleaned" THEN filtered_data ELSE dataset

ThresholdPeakDetection ==
    /\ pc \in {"paired", "cleaned"}
    /\ peakCapacity' = MaxPeaksFor(Len(PeakInput))
    /\ LET stored == PeakStoreList(PeakInput, fs, threshold_factor, min_distance)
       IN  /\ peakStores' = Len(stored)
           /\ peak_count' = Len(stored)
           /\ peaks' \in PeakReturns(stored, peakCapacity')
    /\ pc' = "peaks"
    /\ UNCHANGED <<origin, dataset, fs, min_distance, threshold_factor, valleyList,
                   valleys, valley_count, pairAllocCount, pairedValleys,
                   rr_intervals, rrCount, metrics, metricsCount, consistency,
                   heapLog, fault, maVars, noiseVars, deviceVars, buttonVars>>

\* the division by fs = 0 is undefined: the quotient instruction yields 0 and
\* the call goes on, or the division traps and nothing runs after it
CalcRrIntervals ==
    /\ pc = "peaks"
    /\ \E outcome \in (IF peak_count >= 2 /\ fs = 0 THEN {"zero", "trap"} ELSE {"defined"}) :
          /\ fault' = (IF outcome = "defined" THEN fault ELSE "division by zero")
          /\ rr_intervals' = (IF outcome = "defined" THEN CalcRr(peaks, peak_count, fs)
                              ELSE <<>>)
          /\ pc' = (IF outcome = "trap" THEN "trapped" ELSE "rr")
    /\ rrCount' = Len(rr_intervals')
    /\ heapLog' = [call |-> "calcRrIntervals", events |-> CalcRrHeap(peak_count)]
    /\ UNCHANGED <<origin, dataset, fs, min_distance, threshold_factor, valleyList,
                   valleys, valley_count, pairAllocCount, pairedValleys, peaks,
                   peak_count, peakCapacity, peakStores, metrics, metricsCount,
                   consistency, maVars, noiseVars, deviceVars, buttonVars>>

CalculateHRVMetrics ==
    /\ pc = "rr"
    /\ metricsCount' = HrvMetricsCount(rrCount)
    /\ metrics' = HrvMetrics(rr_intervals, rrCount)
    /\ heapLog' = [call |-> "calculateHRVMetrics", events |-> HrvMetricsHeap(rrCount)]
    /\ pc' = "hrv"
    /\ UNCHANGED <<origin, dataset, fs, min_distance, threshold_factor, valleyList,
                   valleys, valley_count, pairAllocCount, pairedValleys, peaks,
                   peak_count, peakCapacity, peakStores, rr_intervals, rrCount,
                   consistency, fault, maVars, noiseVars, deviceVars, buttonVars>>

EstimateRRIntervalConsistency ==
    /\ pc = "hrv"
    /\ consistency' = RrConsistency(rr_intervals, rrCount)
    /\ pc' = "done"
    /\ UNCHANGED <<origin, dataset, fs, min_distance, threshold_factor, valleyList,
                   valleys, valley_count, pairAllocCount, pairedValleys, peaks,
                   peak_count, peakCapacity, peakStores, rr_intervals, rrCount,
                   metrics, metricsCount, heapLog, fault, maVars, noiseVars,
                   deviceVars, buttonVars>>

Next ==
    \/ MovingAverageFilter
    \/ ValleyDetection
    \/ PairValleyCall
    \/ EliminateNoiseInTime
    \/ ThresholdPeakDetection
    \/ CalcRrIntervals
    \/ CalculateHRVMetrics
    \/ EstimateRRIntervalConsistency

Spec == Init /\ [][Next]_vars

(***************************************************************************)
(* The same stages called with any sampling rate: the callers of           *)
(* processing.h pass fs as an int, and nothing keeps it positive.          *)
(***************************************************************************)
InitAnyFs ==
    \/ InitRaw
    \/ InitSignalAt(NonPositiveRates)
    \/ InitSegmentsAt(NonPositiveRates \cup {2})
    \/ InitPeaksAt(NonPositiveRates)
    \/ InitIntervals

SpecAnyFs == InitAnyFs /\ [][Next]_vars

(***************************************************************************)
(* The device: BluetoothManager and PPGManager after begin().  The         *)
(* constructor of PPGManager leaves recordingStartTime uninitialised.      *)
(***************************************************************************)
InitDevice ==
    /\ origin = "device"
    /\ pc = "device"
    /\ dataset = <<>>
    /\ fs = 1
    /\ min_distance = <<0, 2>>
    /\ threshold_factor = <<1, 1>>
    /\ peaks = <<>>
    /\ peak_count = 0
    /\ rr_intervals = <<>>
    /\ rrCount = 0
    /\ NoNoiseInputs
    /\ NoStageResults
    /\ ppgManager = FALSE
    /\ recordingInProgress = FALSE
    /\ recordingStartTime \in ClockValues
    /\ sensorAwake \in BOOLEAN
    /\ PPGindex = 0
    /\ now = 0
    /\ lastOp = <<"none">>
    /\ dataBatch = <<>>
    /\ batchSamples = <<>>
    /\ sent = <<>>
    /\ sentSamples = <<>>

stageVars == <<origin, pc, dataset, fs, min_distance, threshold_factor, valleyList,
               valleys, valley_count, pairAllocCount, pairedValleys, peaks,
               peak_count, peakCapacity, peakStores, rr_intervals, rrCount, metrics,
               metricsCount, consistency, heapLog, fault, maVars, noiseVars>>

\* ppgManager = &ppg
SetPPGManager ==
    /\ pc = "device"
    /\ ppgManager' = TRUE
    /\ lastOp' = <<"setPPGManager">>
    /\ sent' = <<>>
    /\ sentSamples' = <<>>
    /\ UNCHANGED <<stageVars, buttonVars, recordingInProgress, recordingStartTime, sensorAwake,
                   PPGindex, now, dataBatch, batchSamples>>

\* a write of data[0 .. len - 1] to the recording-control characteristic:
\* startRealTimePPGRecording, stopRealTimePPGRecording, or a log line only
RecordingStartCallback ==
    /\ pc = "device"
    /\ \E data \in Writes :
          LET command == RecordingCommand(data, Len(data), ppgManager)
          IN  /\ lastOp' = <<"write", data>>
              /\ PPGindex' = (IF command = "start" THEN 0 ELSE PPGindex)
              /\ sensorAwake' = (IF command = "start" THEN TRUE
                                 ELSE IF command = "stop" THEN FALSE
                                 ELSE sensorAwake)
              /\ recordingStartTime' = (IF command = "start" THEN now
                                        ELSE recordingStartTime)
              /\ recordingInProgress' = (IF command = "start" THEN TRUE
                                         ELSE IF command = "stop" THEN FALSE
                                         ELSE recordingInProgress)
    /\ sent' = <<>>
    /\ sentSamples' = <<>>
    /\ UNCHANGED <<stageVars, buttonVars, ppgManager, now, dataBatch, batchSamples>>

\* millis() advances to a later instant
Tick ==
    /\ pc = "device"
    /\ \E t \in ClockInstants : t > now /\ now' = t
    /\ lastOp' = <<"tick">>
    /\ sent' = <<>>
    /\ sentSamples' = <<>>
    /\ UNCHANGED <<stageVars, buttonVars, ppgManager, recordingInProgress, recordingStartTime,
                   sensorAwake, PPGindex, dataBatch, batchSamples>>

\* one call of realTimePPGRec from loop(): collectPPGData and batchPPGData
\* within the recording window, stopRealTimePPGRecording after it
RealTimePPGRec ==
    /\ pc = "device"
    /\ lastOp' = <<"realTimePPGRec">>
    /\ \E ppgRaw \in Readings :
          LET collecting == recordingInProgress
                               /\ WithinCollectionTime(now, recordingStartTime)
              pushed == dataBatch \o EncodeSample(ppgRaw)
              transmit == collecting /\ PacketReady(pushed)
          IN  /\ dataBatch' = (IF ~collecting THEN dataBatch
                               ELSE IF transmit THEN <<>> ELSE pushed)
              /\ batchSamples' = (IF ~collecting THEN batchSamples
                                  ELSE IF transmit THEN <<>>
                                  ELSE Append(batchSamples, ppgRaw))
              /\ sent' = (IF transmit THEN pushed ELSE <<>>)
              /\ sentSamples' = (IF transmit THEN Append(batchSamples, ppgRaw) ELSE <<>>)
              /\ recordingInProgress' = (recordingInProgress /\ collecting)
              /\ sensorAwake' = (IF recordingInProgress /\ ~collecting THEN FALSE
                                 ELSE sensorAwake)
    /\ UNCHANGED <<stageVars, buttonVars, ppgManager, recordingStartTime, PPGindex, now>>

NextDevice ==
    \/ SetPPGManager
    \/ RecordingStartCallback
    \/ Tick
    \/ RealTimePPGRec

SpecDevice == InitDevice /\ [][NextDevice]_vars

(***************************************************************************)
(* The button: a ButtonManager after its constructor, polled by loop().    *)
(***************************************************************************)
InitButton ==
    /\ origin = "button"
    /\ pc = "button"
    /\ dataset = <<>>
    /\ fs = 1
    /\ min_distance = <<0, 2>>
    /\ threshold_factor = <<1, 1>>
    /\ peaks = <<>>
    /\ peak_count = 0
    /\ rr_intervals = <<>>
    /\ rrCount = 0
    /\ NoNoiseInputs
    /\ NoResults

otherVars == <<stageVars, ppgVars>>

\* the user presses or releases the button
PinChange ==
    /\ pc = "button"
    /\ pinLevel' = (IF pinLevel = "HIGH" THEN "LOW" ELSE "HIGH")
    /\ lastOp' = <<"pin">>
    /\ UNCHANGED <<otherVars, now, buttonFields, shortReleaseAt, lastEventAt>>

\* millis() advances to a later instant
ButtonTick ==
    /\ pc = "button"
    /\ \E t \in ButtonInstants : t > now /\ now' = t
    /\ lastOp' = <<"tick">>
    /\ UNCHANGED <<otherVars, buttonVars>>

\* one call of handleButton from loop()
HandleButton ==
    /\ pc = "button"
    /\ LET returnsAtOnce == LockedOut(lockOut, now, lastDebounceTime)
           pressEdge == ~returnsAtOnce /\ pinLevel = "LOW" /\ lastButtonState = "HIGH"
           pressed == pressEdge \/ isPressed
           started == IF pressEdge THEN now ELSE pressStartTime
           releaseEdge == ~returnsAtOnce /\ pinLevel = "HIGH"
                              /\ lastButtonState = "LOW" /\ pressed
           long == releaseEdge /\ IsLongDuration(now - started)
           short == releaseEdge /\ ~long
           first == short /\ ~isSecondPress
           double == short /\ isSecondPress /\ WithinDoublePress(now, lastPressTime)
           timeout == ~returnsAtOnce /\ ~releaseEdge /\ isSecondPress
                          /\ ~WithinDoublePress(now, lastPressTime)
           detected == IF long THEN "long" ELSE IF double THEN "double" ELSE "none"
       IN  /\ lockOut' = (lockOut /\ returnsAtOnce)
           /\ pressStartTime' = started
           /\ isPressed' = (pressed /\ ~releaseEdge)
           /\ longPressDetected' = (longPressDetected \/ long)
           /\ lastPressTime' = (IF first THEN now ELSE lastPressTime)
           /\ isSecondPress' = (IF first THEN TRUE
                                ELSE IF double \/ timeout THEN FALSE
                                ELSE isSecondPress)
           /\ doublePressDetected' = (doublePressDetected \/ double)
           /\ lastButtonState' = (IF returnsAtOnce THEN lastButtonState ELSE pinLevel)
           /\ lastOp' = <<"handleButton", detected>>
           /\ lastEventAt' = (IF detected = "none" THEN lastEventAt ELSE now)
           /\ shortReleaseAt' =
                  (IF ~(pinLevel = "HIGH" /\ lastButtonState = "LOW") \/ now - started > 800
                   THEN shortReleaseAt
                   ELSE IF shortReleaseAt >= 0 /\ now - shortReleaseAt <= 500 THEN -1
                   ELSE now)
    /\ UNCHANGED <<otherVars, now, pinLevel, lastDebounceTime>>

IsLongPress ==
    /\ pc = "button"
    /\ lastOp' = <<"isLongPress", QueryFlag(longPressDetected).result>>
    /\ longPressDetected' = QueryFlag(longPressDetected).flag
    /\ UNCHANGED <<otherVars, now, pinLevel, isPressed, isSecondPress,
                   doublePressDetected, lastDebounceTime, pressStartTime,
                   lastPressTime, lockOut, lastButtonState, shortReleaseAt,
                   lastEventAt>>

IsDoublePress ==
    /\ pc = "button"
    /\ lastOp' = <<"isDoublePress", QueryFlag(doublePressDetected).result>>
    /\ doublePressDetected' = QueryFlag(doublePressDetected).flag
    /\ UNCHANGED <<otherVars, now, pinLevel, isPressed, isSecondPress,
                   longPressDetected, lastDebounceTime, pressStartTime,
                   lastPressTime, lockOut, lastButtonState, shortReleaseAt,
                   lastEventAt>>

NextButton ==
    \/ PinChange
    \/ ButtonTick
    \/ HandleButton
    \/ IsLongPress
    \/ IsDoublePress

SpecButton == InitButton /\ [][NextButton]_vars

(***************************************************************************)
(* Helpers of the properties                                               *)
(***************************************************************************)
StageOrder == <<"button", "device", "trapped", "raw", "smoothed", "start", "valleys", "paired",
                "segments", "cleaned", "peaks", "rr", "hrv", "done">>
StageNo(p) == CHOOSE i \in 1..Len(StageOrder) : StageOrder[i] = p
Reached(p) == StageNo(pc) >= StageNo(p)

\* the elements of a finite set of integers in increasing order
RECURSIVE Ascending(_)
Ascending(S) ==
    IF S = {} THEN <<>>
    ELSE LET m == CHOOSE x \in S : \A y \in S : x <= y
         IN  <<m>> \o Ascending(S \ {m})

\* consecutive entries differ by more than th
GapsExceed(list, th) ==
    \A i \in 1..(Len(list) - 1) : list[i + 1] - list[i] > th

StrictlyIncreasing(list) ==
    \A i \in 1..(Len(list) - 1) : list[i] < list[i + 1]

AllEqual(d) == \A i, j \in 1..Len(d) : d[i] = d[j]

\* ceil(min_distance * fs) as the least integer not below the product
RefractoryDistance ==
    CHOOSE t \in 0..(MaxHalfSeconds + 1) * 200 :
        /\ t * min_distance[2] >= min_distance[1] * fs
        /\ (t - 1) * min_distance[2] < min_distance[1] * fs

(***************************************************************************)
(* C1  Refractory invariant: the index lists returned by valleyDetection   *)
(* and by thresholdPeakDetection are strictly increasing, and every two    *)
(* consecutive returned indices differ by more than ceil(min_distance*fs). *)
(***************************************************************************)
C1_ValleysRefractory ==
    (origin = "signal" /\ Reached("valleys")) =>
        /\ StrictlyIncreasing(valleys)
        /\ GapsExceed(valleys, RefractoryDistance)

C1_PeaksRefractory ==
    (origin = "signal" /\ Reached("peaks")) =>
        /\ StrictlyIncreasing(peaks)
        /\ GapsExceed(peaks, RefractoryDistance)

C1_RefractoryInvariant == C1_ValleysRefractory /\ C1_PeaksRefractory

(***************************************************************************)
(* C2  calcRrIntervals with peakCount >= 2 returns, in peak order, exactly *)
(* the values (peaks[i] - peaks[i-1]) * 1000 / fs that lie in [300, 1500]; *)
(* the others are dropped, never clamped; at most peakCount - 1 intervals  *)
(* are returned.                                                           *)
(***************************************************************************)
IntervalOfPair(i) == ((peaks[i + 1] - peaks[i]) * 1000) \div fs

InRange(v) == 300 <= v /\ v <= 1500

ExpectedIntervals ==
    SelectSeq([i \in 1..(peak_count - 1) |-> IntervalOfPair(i)], InRange)

C2_RrIntervals ==
    (origin # "intervals" /\ Reached("rr") /\ peak_count >= 2) =>
        /\ rr_intervals = ExpectedIntervals
        /\ rrCount = Len(rr_intervals)
        /\ rrCount <= peak_count - 1
        /\ \A i \in 1..Len(rr_intervals) : InRange(rr_intervals[i])

\* Scenario C, and a call that drops one interval and keeps the bound 1500
C2_Witness ==
    /\ pc = "rr"
    /\ \/ peaks = <<0, 100>> /\ fs = 200 /\ rr_intervals = <<500>>
       \/ peaks = <<0, 3, 100>> /\ fs = 2 /\ rr_intervals = <<1500>>

(***************************************************************************)
(* C3  calculateHRVMetrics on an empty interval sequence reports full      *)
(* unavailability (no array, metricsCount = 0); on two or more intervals   *)
(* it reports HR, SDNN and RMSSD, metricsCount = 3, each a number.         *)
(***************************************************************************)
IsNumber(x) == x.k \in {"rat", "sqrt"} /\ x.d # 0

C4_RmssdUnavailable ==
    (Reached("hrv") /\ rrCount = 1) =>
        /\ Len(metrics) >= 2
        /\ IsNumber(metrics[1])
        /\ IsNumber(metrics[2]) /\ metrics[2].n = 0
        /\ ~(metricsCount = 3 /\ metrics[3] = FSqrtDiv(0, 0))

(***************************************************************************)
(* C5  calcRrIntervals with fewer than 2 peaks returns the empty interval  *)
(* sequence (rrCount = 0), and calculateHRVMetrics on that result reports  *)
(* full unavailability.                                                    *)
(***************************************************************************)
C5_FewPeaks ==
    (origin # "intervals" /\ peak_count < 2) =>
        /\ Reached("rr") => (rr_intervals = <<>> /\ rrCount = 0)
        /\ Reached("hrv") => (metrics = <<>> /\ metricsCount = 0)

\* Scenario D: a single peak
C5_Witness ==
    /\ pc = "hrv"
    /\ origin # "intervals"
    /\ peak_count = 1
    /\ metricsCount = 0

(***************************************************************************)
(* C6  estimateRRIntervalConsistency returns -1 exactly when rrCount < 2;  *)
(* for rrCount >= 2 it returns the population standard deviation of the    *)
(* intervals, which is not negative.                                       *)
(***************************************************************************)
SumOfSquares(rr) == Sum([i \in 1..Len(rr) |-> rr[i] * rr[i]])

\* n / d = (count * sum of squares - (sum)^2) / count^2
IsPopulationVariance(n, d, rr) ==
    n * Len(rr) * Len(rr) = d * (Len(rr) * SumOfSquares(rr) - Sum(rr) * Sum(rr))

C6_Consistency ==
    pc = "done" =>
        /\ (consistency = FRat(-1, 1)) <=> (rrCount < 2)
        /\ rrCount >= 2 =>
               /\ consistency.k = "sqrt"
               /\ consistency.d > 0
               /\ consistency.n >= 0
               /\ IsPopulationVariance(consistency.n, consistency.d, rr_intervals)

C6_Witness ==
    /\ pc = "done"
    /\ rrCount >= 2
    /\ consistency.k = "sqrt"
    /\ consistency.n > 0

(***************************************************************************)
(* C7  pairValley on N valley indices produces exactly max(N - 1, 0)       *)
(* segments, the i-th being (valleys[i], valleys[i+1]); for N = 0 or 1 it  *)
(* produces none, without an invalid allocation request.                   *)
(***************************************************************************)
C7_PairValley ==
    (origin = "signal" /\ Reached("paired")) =>
        /\ Len(pairedValleys) = (IF valley_count >= 1 THEN valley_count - 1 ELSE 0)
        /\ \A i \in 1..Len(pairedValleys) :
               pairedValleys[i] = <<valleys[i], valleys[i + 1]>>
        /\ AllocRequestValid(pairAllocCount)

(***************************************************************************)
(* C8  Before the refractory pass, valleyDetection records one candidate   *)
(* for each maximal run of samples <= mean that is followed by a sample    *)
(* > mean: the first index of the run attaining the run's minimum.  A run  *)
(* reaching the last sample records nothing.                               *)
(***************************************************************************)
AtOrBelowMean(i) == dataset[i + 1] * Len(dataset) <= Sum(dataset)

\* maximal runs <<a, b>> of samples at or below the mean, closed by sample b + 1
ClosedRuns ==
    {r \in (0..(Len(dataset) - 1)) \X (0..(Len(dataset) - 2)) :
        /\ r[1] <= r[2]
        /\ \A i \in r[1]..r[2] : AtOrBelowMean(i)
        /\ r[1] = 0 \/ ~AtOrBelowMean(r[1] - 1)
        /\ ~AtOrBelowMean(r[2] + 1)}

FirstMinimumOf(r) ==
    CHOOSE i \in r[1]..r[2] :
        /\ \A j \in r[1]..r[2] : dataset[j + 1] >= dataset[i + 1]
        /\ \A j \in r[1]..(i - 1) : dataset[j + 1] > dataset[i + 1]

C8_ValleyCandidates ==
    (origin = "signal" /\ Reached("valleys")) =>
        valleyList = Ascending({FirstMinimumOf(r) : r \in ClosedRuns})

\* a run with a repeated minimum, and a run left open at the end of the signal
C8_Witness ==
    /\ pc = "valleys"
    /\ dataset = <<0, 0, 2, 0>>
    /\ valleyList = <<0>>

(***************************************************************************)
(* C9  thresholdPeakDetection returns the greedy left-to-right selection   *)
(* over the candidates (1 <= i <= size-2, dataset[i] >= mean * factor,     *)
(* strictly above both neighbours): the first candidate, then each one     *)
(* more than ceil(min_distance * fs) after the last accepted.  Indices 0   *)
(* and size-1 are never returned.                                          *)
(***************************************************************************)
IsPeakCandidate(i) ==
    /\ 1 <= i /\ i <= Len(dataset) - 2
    /\ dataset[i + 1] * Len(dataset) * threshold_factor[2]
           >= Sum(dataset) * threshold_factor[1]
    /\ dataset[i + 1] > dataset[i]
    /\ dataset[i + 1] > dataset[i + 2]

PeakCandidates == Ascending({i \in 0..(Len(dataset) - 1) : IsPeakCandidate(i)})

\* k is accepted iff it is the first candidate or lies more than the
\* refractory distance after the last accepted candidate before it
RECURSIVE GreedyAccepted(_, _)
GreedyAccepted(cands, k) ==
    IF k = 1 THEN TRUE
    ELSE LET earlier == {j \in 1..(k - 1) : GreedyAccepted(cands, j)}
             last == CHOOSE j \in earlier : \A x \in earlier : x <= j
         IN  cands[k] - cands[last] > RefractoryDistance

GreedySelection ==
    SelectSeq(PeakCandidates,
              LAMBDA v : \E k \in 1..Len(PeakCandidates) :
                            PeakCandidates[k] = v /\ GreedyAccepted(PeakCandidates, k))

C9_GreedyPeaks ==
    (origin = "signal" /\ Reached("peaks")) =>
        /\ peaks = GreedySelection
        /\ peak_count = Len(peaks)
        /\ \A i \in 1..Len(peaks) : peaks[i] # 0 /\ peaks[i] # Len(dataset) - 1

(***************************************************************************)
(* C10  For a signal whose samples are all equal, valleyDetection returns  *)
(* no valley, thresholdPeakDetection no peak, and calcRrIntervals followed *)
(* by calculateHRVMetrics reports nothing available; any signal without a  *)
(* step from <= mean to > mean has no valley.                              *)
(***************************************************************************)
HasUpwardCrossing ==
    \E i \in 0..(Len(dataset) - 2) : AtOrBelowMean(i) /\ ~AtOrBelowMean(i + 1)

C10_ConstantSignal ==
    origin = "signal" =>
        /\ (Reached("valleys") /\ ~HasUpwardCrossing) =>
               (valleys = <<>> /\ valley_count = 0)
        /\ (Reached("peaks") /\ AllEqual(dataset)) =>
               (peaks = <<>> /\ peak_count = 0)
        /\ (Reached("rr") /\ AllEqual(dataset)) =>
               (rr_intervals = <<>> /\ rrCount = 0)
        /\ (Reached("hrv") /\ AllEqual(dataset)) =>
               (metrics = <<>> /\ metricsCount = 0)

\* Scenario A
C10_Witness ==
    /\ pc = "done"
    /\ origin = "signal"
    /\ Len(dataset) >= 3
    /\ AllEqual(dataset)
    /\ valley_count = 0
    /\ peak_count = 0
    /\ metricsCount = 0

(***************************************************************************)
(* Helpers of the noise-elimination properties                             *)
(***************************************************************************)
SegmentCount == Len(pairedValleys)

NoiseDone == origin = "segments" /\ Reached("cleaned")

\* a < b for two numbers n / d with d > 0; false when either is not a number
StrictlyBelow(a, b) ==
    /\ a.k = "rat" /\ b.k = "rat"
    /\ a.d > 0 /\ b.d > 0
    /\ a.n * b.d < b.n * a.d

SegmentSamples(i) == SubSeq(dataset, pairedValleys[i][1] + 1, pairedValleys[i][2] + 1)

\* the segments inside all four thresholds
PassingSegments ==
    {i \in 1..SegmentCount :
        /\ StrictlyBelow(stds[i], thresholds[1])
        /\ StrictlyBelow(kurtosiss[i], thresholds[2])
        /\ StrictlyBelow(thresholds[3], skews[i])
        /\ StrictlyBelow(skews[i], thresholds[4])}

RECURSIVE SamplesOf(_)
SamplesOf(list) ==
    IF list = <<>> THEN <<>> ELSE SegmentSamples(list[1]) \o SamplesOf(Tail(list))

\* std^2 is the population variance of the segment's samples
IsSegmentStd(x, samples) ==
    /\ x.k = "rat" /\ x.d > 0 /\ x.n >= 0
    /\ x.n * x.n * Len(samples) * Len(samples)
           = x.d * x.d * (Len(samples) * SumOfSquares(samples) - Sum(samples) * Sum(samples))

(***************************************************************************)
(* C11  The 8-argument eliminateNoiseInTime retains exactly the segments   *)
(* with std < stdThreshold, kurtosis < kurtThreshold and skewLow <         *)
(* skewness < skewHigh, all strict; its output is the concatenation, in    *)
(* segment order, of data[start..end] of the retained segments, and        *)
(* *newSize is the sum of their lengths, so that no sample of a rejected   *)
(* range is in the output.                                                 *)
(***************************************************************************)
C11_NoiseElimination ==
    NoiseDone =>
        /\ Len(stds) = SegmentCount
        /\ \A i \in 1..SegmentCount : IsSegmentStd(stds[i], SegmentSamples(i))
        /\ filtered_data = SamplesOf(Ascending(PassingSegments))
        /\ newSize = Sum([k \in 1..Len(Ascending(PassingSegments)) |->
                             Len(SegmentSamples(Ascending(PassingSegments)[k]))])
        /\ newSize = Len(filtered_data)

\* one segment retained and one rejected for its standard deviation alone
C11_Witness ==
    /\ pc = "cleaned"
    /\ dataset = <<0, 1, 0, 10>>
    /\ pairedValleys = <<<<0, 1>>, <<2, 3>>>>
    /\ ths = <<2, 2, 2, 2>>
    /\ filtered_data = <<0, 1>>
    /\ newSize = 2

(***************************************************************************)
(* C12  When no segment passes the thresholds, eliminateNoiseInTime        *)
(* returns the empty sequence with *newSize = 0, and thresholdPeak-        *)
(* Detection, calcRrIntervals and calculateHRVMetrics run in turn on it    *)
(* end with zero peaks, zero intervals and no metrics, without a store     *)
(* outside a buffer and without an integer division by zero.               *)
(***************************************************************************)
C12_NothingRetained ==
    (NoiseDone /\ PassingSegments = {}) =>
        /\ filtered_data = <<>> /\ newSize = 0
        /\ Reached("peaks") =>
               /\ peaks = <<>> /\ peak_count = 0
               /\ peakStores <= peakCapacity
        /\ fault = "none" /\ pc # "trapped"
        /\ Reached("rr") => (rr_intervals = <<>> /\ rrCount = 0)
        /\ Reached("hrv") => (metrics = <<>> /\ metricsCount = 0)

\* segments were passed, none was retained, and the sampling rate is 0
C12_Witness ==
    /\ pc = "hrv"
    /\ origin = "segments"
    /\ SegmentCount >= 2
    /\ fs = 0
    /\ newSize = 0
    /\ metricsCount = 0

(***************************************************************************)
(* C13  statisticDetection never divides by a zero variance: for a segment *)
(* whose samples are all equal (a segment of one sample included) the      *)
(* kurtosis and the skewness are a defined value, not the quotient of a    *)
(* moment by 0.                                                            *)
(***************************************************************************)
C13_ZeroVariance ==
    NoiseDone =>
        \A i \in 1..SegmentCount :
            AllEqual(SegmentSamples(i)) => (~IsNaN(kurtosiss[i]) /\ ~IsNaN(skews[i]))

(***************************************************************************)
(* C14  With valley_count = 0 the threshold derivation reports an error    *)
(* instead of dividing the statistic sums by zero; with valley_count >= 1  *)
(* the thresholds are mean(std) + ths[0], mean(kurt) + ths[1],             *)
(* mean(skew) - ths[2] and mean(skew) + ths[3].                            *)
(***************************************************************************)
MeanOf(list) == FQuot(FSum(list), FInt(Len(list)))

C14_Thresholds ==
    NoiseDone =>
        /\ SegmentCount = 0 => \A k \in 1..Len(thresholds) : ~IsNaN(thresholds[k])
        /\ SegmentCount >= 1 =>
               /\ thresholds[1] = FAdd(MeanOf(stds), FInt(ths[1]))
               /\ thresholds[2] = FAdd(MeanOf(kurtosiss), FInt(ths[2]))
               /\ thresholds[3] = FSub(MeanOf(skews), FInt(ths[3]))
               /\ thresholds[4] = FAdd(MeanOf(skews), FInt(ths[4]))

(***************************************************************************)
(* C15  movingAverageFilter with windowSize >= 1 writes one output per     *)
(* input index 0..size-1, and output[i] is the sum of                      *)
(* input[max(0, i-windowSize+1) .. i] divided by min(i+1, windowSize).     *)
(***************************************************************************)
WindowStart(i) == IF i - windowSize + 1 > 0 THEN i - windowSize + 1 ELSE 0
WindowTerms(i) == IF i + 1 < windowSize THEN i + 1 ELSE windowSize

C15_MovingAverage ==
    (pc = "smoothed" /\ windowSize >= 1) =>
        /\ Len(maOutput) = Len(dataset)
        /\ \A i \in 0..(Len(dataset) - 1) :
               /\ maOutput[i + 1].k = "rat"
               /\ maOutput[i + 1].d # 0
               /\ maOutput[i + 1].n * WindowTerms(i)
                      = Sum(SubSeq(dataset, WindowStart(i) + 1, i + 1)) * maOutput[i + 1].d

\* the left edge averages one term, the next index two, the rest windowSize
C15_Witness ==
    /\ pc = "smoothed"
    /\ windowSize = 2
    /\ dataset = <<1, 2, 0>>
    /\ maOutput = <<FRat(1, 1), FRat(3, 2), FRat(2, 2)>>

(***************************************************************************)
(* C16  movingAverageFilter called with windowSize <= 0 is rejected: no    *)
(* output sample is computed as sum / count with count = 0.                *)
(***************************************************************************)
C16_WindowRejected ==
    (pc = "smoothed" /\ windowSize <= 0) =>
        \A i \in 1..Len(maOutput) : maOutput[i] # FDiv(0, 0)

(***************************************************************************)
(* C17  A sampling rate fs <= 0 is rejected before any stage computes:     *)
(* calcRrIntervals with peakCount >= 2 never divides by fs = 0, and        *)
(* valleyDetection and thresholdPeakDetection never derive a refractory    *)
(* distance from fs <= 0.                                                  *)
(***************************************************************************)
C17_RateRejected ==
    fs <= 0 =>
        /\ fault # "division by zero"
        /\ ~(origin = "signal" /\ Reached("valleys"))
        /\ ~(origin \in {"signal", "segments"} /\ Reached("peaks"))

(***************************************************************************)
(* C18  Within one call of valleyDetection (window, valleyList) and of     *)
(* eliminateNoiseInTime (stds, kurtosiss, skews, valid_indices) every      *)
(* temporary buffer is allocated once, freed once before the return and    *)
(* not used after the free; the only buffer still allocated at the return  *)
(* is the returned array.  calcRrIntervals and calculateHRVMetrics         *)
(* allocate nothing on their early-exit paths.                             *)
(***************************************************************************)
HeapEvents(op, buffer) ==
    {i \in 1..Len(heapLog.events) : heapLog.events[i] = <<op, buffer>>}

Allocated == {heapLog.events[i][2] : i \in {j \in 1..Len(heapLog.events) :
                                                heapLog.events[j][1] = "malloc"}}

FreedOnce(buffer) ==
    /\ Cardinality(HeapEvents("malloc", buffer)) = 1
    /\ Cardinality(HeapEvents("free", buffer)) = 1
    /\ \A m \in HeapEvents("malloc", buffer) : \A f \in HeapEvents("free", buffer) :
           /\ m < f
           /\ \A u \in HeapEvents("use", buffer) : m < u /\ u < f

ReturnedLive(buffer) ==
    /\ Cardinality(HeapEvents("malloc", buffer)) = 1
    /\ HeapEvents("free", buffer) = {}
    /\ heapLog.events[Len(heapLog.events)] = <<"return", buffer>>

C18_BuffersReleased ==
    /\ heapLog.call = "valleyDetection" =>
           /\ FreedOnce("window") /\ FreedOnce("valleyList")
           /\ ReturnedLive("valleyArray")
           /\ Allocated = {"window", "valleyList", "valleyArray"}
    /\ heapLog.call = "eliminateNoiseInTime" =>
           /\ FreedOnce("stds") /\ FreedOnce("kurtosiss") /\ FreedOnce("skews")
           /\ FreedOnce("valid_indices")
           /\ ReturnedLive("filtered_data")
           /\ Allocated = {"stds", "kurtosiss", "skews", "valid_indices",
                           "filtered_data"}
    /\ (heapLog.call = "calcRrIntervals" /\ peak_count < 2) => Allocated = {}
    /\ (heapLog.call = "calculateHRVMetrics" /\ rrCount = 0) => Allocated = {}

\* a call of valleyDetection that used both temporary buffers
C18_Witness ==
    /\ pc = "valleys"
    /\ heapLog.call = "valleyDetection"
    /\ valleyList # <<>>
    /\ HeapEvents("use", "window") # {}

(***************************************************************************)
(* C19  Noise elimination over N segments with identical statistics plus   *)
(* one segment of much larger standard deviation excludes exactly that     *)
(* segment and outputs the samples of the N uniform segments in order.     *)
(***************************************************************************)
SameStatistics(i, j) ==
    stds[i] = stds[j] /\ kurtosiss[i] = kurtosiss[j] /\ skews[i] = skews[j]

\* more than four times the other standard deviation
MuchLarger(a, b) == a.k = "rat" /\ b.k = "rat" /\ a.n * b.d > 4 * b.n * a.d

IsExtremeAmongUniform(e) ==
    /\ SegmentCount >= 3
    /\ \A i, j \in (1..SegmentCount) \ {e} : SameStatistics(i, j)
    /\ \A i \in (1..SegmentCount) \ {e} : MuchLarger(stds[e], stds[i])

C19_ExtremeExcluded ==
    NoiseDone =>
        \A e \in 1..SegmentCount :
            IsExtremeAmongUniform(e) =>
                filtered_data = SamplesOf(Ascending((1..SegmentCount) \ {e}))

(***************************************************************************)
(* C20  A write to the recording-control characteristic starts a           *)
(* recording iff it is exactly one byte 0x01 and stops it iff it is        *)
(* exactly one byte 0x00, with a PPGManager linked; a write of any other   *)
(* length or value, or any write before setPPGManager, leaves              *)
(* recordingInProgress, recordingStartTime and the sensor power state      *)
(* unchanged.                                                              *)
(***************************************************************************)
WriteEffect(data) ==
    IF ppgManager /\ data = <<1>>
    THEN recordingInProgress' /\ recordingStartTime' = now /\ sensorAwake'
    ELSE IF ppgManager /\ data = <<0>>
    THEN ~recordingInProgress' /\ ~sensorAwake'
             /\ recordingStartTime' = recordingStartTime
    ELSE UNCHANGED <<recordingInProgress, recordingStartTime, sensorAwake>>

C20_RecordingControl ==
    [][\A data \in Writes : lastOp' = <<"write", data>> => WriteEffect(data)]_vars

\* a start command at a time the start time did not hold before
C20_Witness ==
    /\ lastOp = <<"write", <<1>>>>
    /\ ppgManager
    /\ recordingInProgress
    /\ sensorAwake
    /\ now = 2
    /\ recordingStartTime = 2

(***************************************************************************)
(* C21  While a recording is in progress realTimePPGRec collects a sample  *)
(* only if fewer than COLLECTION_TIME ms have passed since its start; the  *)
(* first call made COLLECTION_TIME ms or more after the start stops the    *)
(* recording (recordingInProgress false, sensor shut down) without         *)
(* collecting, and no later call collects until the next start.            *)
(***************************************************************************)
\* a collected sample always changes the batch: it is appended or sent
SampleCollected == dataBatch' # dataBatch

RecEffect ==
    IF recordingInProgress /\ now - recordingStartTime < COLLECTION_TIME
    THEN SampleCollected /\ recordingInProgress' /\ sensorAwake' = sensorAwake
    ELSE /\ ~SampleCollected
         /\ sent' = <<>>
         /\ ~recordingInProgress'
         /\ sensorAwake' = (sensorAwake /\ ~recordingInProgress)

C21_RecordingTimeout ==
    [][lastOp' = <<"realTimePPGRec">> => RecEffect]_vars

\* the call made exactly COLLECTION_TIME after the start, samples collected before
C21_Witness ==
    /\ lastOp = <<"realTimePPGRec">>
    /\ ppgManager
    /\ now - recordingStartTime = COLLECTION_TIME
    /\ ~recordingInProgress
    /\ ~sensorAwake
    /\ dataBatch # <<>>

(***************************************************************************)
(* C22  Every transmission requested by batchPPGData carries exactly 18    *)
(* bytes: 6 consecutive samples in collection order, each as the high      *)
(* byte, then the low byte of the reading's low 16 bits, then 0xFE.  It    *)
(* is requested on every 6th sample and the batch is empty afterwards, so  *)
(* the batch never holds more than 18 bytes.                               *)
(***************************************************************************)
RECURSIVE ExpectedBytes(_)
ExpectedBytes(readings) ==
    IF readings = <<>> THEN <<>>
    ELSE << (readings[1] % 65536) \div 256, readings[1] % 256, 254 >>
             \o ExpectedBytes(Tail(readings))

C22_Packets ==
    origin = "device" =>
        /\ Len(batchSamples) < 6
        /\ dataBatch = ExpectedBytes(batchSamples)
        /\ Len(dataBatch) <= 18
        /\ sent # <<>> =>
               /\ Len(sent) = 18
               /\ Len(sentSamples) = 6
               /\ sent = ExpectedBytes(sentSamples)
               /\ dataBatch = <<>>

\* a packet holding both readings
C22_Witness ==
    /\ sent # <<>>
    /\ sentSamples[1] = 254
    /\ sentSamples[2] = 98305
    /\ sent[4] = 128 /\ sent[5] = 1 /\ sent[6] = 254

(***************************************************************************)
(* C30  Each recording starts with an empty transmit batch: when           *)
(* startRealTimePPGRecording returns, the batch of batchPPGData holds no   *)
(* bytes, so that no sample of an earlier recording is in the first        *)
(* packet of this one.                                                     *)
(***************************************************************************)
C30_EmptyBatchAtStart ==
    (lastOp = <<"write", <<1>>>> /\ ppgManager) => dataBatch = <<>>

(***************************************************************************)
(* Helpers of the button properties                                        *)
(***************************************************************************)
HandleButtonStep == lastOp'[1] = "handleButton"

\* this call of handleButton observes the transition LOW to HIGH
ReleaseObserved == pinLevel = "HIGH" /\ lastButtonState = "LOW"

(***************************************************************************)
(* C23  A press whose release handleButton observes more than 800 ms       *)
(* after it observed the press sets the long-press event; a release        *)
(* observed 800 ms or less after the press never sets it.                  *)
(***************************************************************************)
LongPressEffect ==
    IF ReleaseObserved /\ now - pressStartTime > 800
    THEN longPressDetected'
    ELSE longPressDetected' = longPressDetected

C23_LongPress == [][HandleButtonStep => LongPressEffect]_vars

\* a release observed 900 ms after the press
C23_Witness ==
    /\ lastOp = <<"handleButton", "long">>
    /\ longPressDetected
    /\ now - pressStartTime = 900
    /\ ~isPressed

(***************************************************************************)
(* C24  Two short presses whose releases handleButton observes within      *)
(* 500 ms of each other set the double-press event once; a short press     *)
(* whose release is not followed by a second short release within 500 ms   *)
(* sets no event and leaves the detector ready to treat the next short     *)
(* press as a first press.                                                 *)
(***************************************************************************)
DoublePressEffect ==
    IF shortReleaseAt >= 0 /\ now - shortReleaseAt <= 500
    THEN doublePressDetected' /\ ~isSecondPress'
    ELSE /\ doublePressDetected' = doublePressDetected
         /\ isSecondPress' /\ lastPressTime' = now

C24_DoublePress ==
    [][(HandleButtonStep /\ ReleaseObserved /\ now - pressStartTime <= 800)
           => DoublePressEffect]_vars

(***************************************************************************)
(* C25  Every long-press (double-press) event detected by handleButton is  *)
(* reported by exactly one true return of isLongPress (isDoublePress), and *)
(* a call with no new event since the last true return yields false.       *)
(***************************************************************************)
\* an event detected while the flag of its kind is still set has no report
\* of its own
DetectionUnreported ==
    /\ lastOp' = <<"handleButton", "long">> => ~longPressDetected
    /\ lastOp' = <<"handleButton", "double">> => ~doublePressDetected

QueryReports ==
    /\ lastOp'[1] = "isLongPress" =>
           (lastOp'[2] = longPressDetected /\ ~longPressDetected')
    /\ lastOp'[1] = "isDoublePress" =>
           (lastOp'[2] = doublePressDetected /\ ~doublePressDetected')

C25_EventsReportedOnce == [][DetectionUnreported /\ QueryReports]_vars

(***************************************************************************)
(* C26  Once handleButton has detected a long press or a double press,     *)
(* button transitions are ignored for lockOutDelay, so no two press events *)
(* are detected less than 600 ms apart.                                    *)
(***************************************************************************)
C26_Lockout ==
    [][(HandleButtonStep /\ lastOp'[2] # "none" /\ lastEventAt >= 0)
           => (now - lastEventAt >= lockOutDelay /\ lockOut')]_vars

(***************************************************************************)
(* C27  thresholdPeakDetection never stores more peak indices than the     *)
(* capacity it allocates for peakList, size / 10: the number of stores     *)
(* peakList[peak_idx++] = i is at most max_peaks.                          *)
(***************************************************************************)
C27_PeakCapacity == Reached("peaks") => peakStores <= peakCapacity

(***************************************************************************)
(* C28  Every segment pairValley builds from the valley list valleyDetection*)
(* returns on a signal has start < end, both endpoint samples <= the       *)
(* signal mean, and a sample strictly greater than the mean inside         *)
(* [start, end]; hence no such segment has length 1 or all-equal samples.  *)
(***************************************************************************)
\* sample i of the signal against the mean, compared as sample * size with sum
GreaterThanMean(i) == At(dataset, i) * Len(dataset) > Sum(dataset)

WellFormedSegment(start, end) ==
    /\ start < end
    /\ ~GreaterThanMean(start)
    /\ ~GreaterThanMean(end)
    /\ \E k \in start..end : GreaterThanMean(k)
    /\ end - start + 1 # 1
    /\ \E j, k \in start..end : At(dataset, j) # At(dataset, k)

C28_Segments ==
    (origin = "signal" /\ Reached("paired")) =>
        \A i \in 1..Len(pairedValleys) :
            WellFormedSegment(pairedValleys[i][1], pairedValleys[i][2])

\* one segment whose valleys are three samples apart
C28_Witness ==
    /\ origin = "signal"
    /\ pc = "paired"
    /\ Len(pairedValleys) = 1
    /\ pairedValleys[1][2] - pairedValleys[1][1] = 3
    /\ dataset[pairedValleys[1][1] + 1] = dataset[pairedValleys[1][2] + 1]

(***************************************************************************)
(* C29  Every interval calcRrIntervals keeps lies in [300, 1500] ms, and   *)
(* for every non-empty list of such intervals the heart rate               *)
(* 60000 / mean(intervals) computed by calculateHRVMetrics lies in         *)
(* [40, 200] bpm; it is never 0 and never negative.                        *)
(***************************************************************************)
PhysiologicalIntervals ==
    \A i \in 1..Len(rr_intervals) : rr_intervals[i] >= 300 /\ rr_intervals[i] <= 1500

HeartRateInRange ==
    /\ FLessEq(FInt(40), metrics[1])
    /\ FLessEq(metrics[1], FInt(200))
    /\ FLess(FInt(0), metrics[1])

C29_HeartRate ==
    /\ (origin # "intervals" /\ Reached("rr")) => PhysiologicalIntervals
    /\ (Reached("hrv") /\ rrCount > 0 /\ PhysiologicalIntervals) => HeartRateInRange

\* peaks at samples 0, 1, 3 at 2 Hz: intervals 500 and 1000 ms, 80 bpm
C29_Witness ==
    /\ origin = "peaks"
    /\ Reached("hrv")
    /\ rr_intervals = <<500, 1000>>
    /\ metrics[1].n = 80 * metrics[1].d

====
